---- MODULE Spec2Model ----
(***************************************************************************)
(* Text-to-speech acquisition and playback engine of                       *)
(* src/services/geminiService.ts: the audio cache, the single-flight map   *)
(* of pending synthesis requests, and the single current playback source.  *)
(*                                                                         *)
(* One step of the model is one JavaScript task together with the          *)
(* microtasks it schedules: a call from the UI, the answer of the          *)
(* Synthesizer, the completion of AudioContext.resume(), or the `ended'    *)
(* event of a buffer source.                                               *)
(***************************************************************************)
EXTENDS Integers, Sequences, FiniteSets

\* ------------------------------------------------------------------ bounds
MaxPlays    == 2      \* playTTS calls in a behaviour
MaxPrefetch == 2      \* UI prefetchTTS calls awaiting their promise at a time
MaxCalls    == 2      \* synthesis attempts in a behaviour
MaxBytes    == 4      \* length of the payloads given to the decoder alone
MaxEntries  == 2      \* App: entries created by analyses in a behaviour
MaxHistory  == 2      \* App: length of navHistory
MaxAnalysing == 2     \* App: performSearch calls suspended at a time

Texts  == {"A", "B"}
Voices == {"Kore", "Puck", "Charon"}

\* No caller in the UI passes voiceName: every call runs with the default.
DefaultVoice == "Kore"
UIVoices == {DefaultVoice}

\* ------------------------------------------------------- base64 and PCM
Alphabet ==
  << "A","B","C","D","E","F","G","H","I","J","K","L","M","N","O","P",
     "Q","R","S","T","U","V","W","X","Y","Z","a","b","c","d","e","f",
     "g","h","i","j","k","l","m","n","o","p","q","r","s","t","u","v",
     "w","x","y","z","0","1","2","3","4","5","6","7","8","9","+","/" >>

B64Val(ch) == (CHOOSE i \in 1..64 : Alphabet[i] = ch) - 1

IsB64Char(ch) == \E i \in 1..64 : Alphabet[i] = ch

\* atob, first steps: whitespace is removed, then up to two trailing "="
\* when the length is a multiple of four.
atobStrip(str) ==
  LET d == SelectSeq(str, LAMBDA ch : ch \notin {" ", "\n", "\t", "\r", "\f"})
      n == Len(d)
  IN  IF n > 0 /\ n % 4 = 0
        THEN IF d[n] = "=" /\ d[n-1] = "="
               THEN SubSeq(d, 1, n - 2)
               ELSE IF d[n] = "=" THEN SubSeq(d, 1, n - 1) ELSE d
        ELSE d

\* atob throws InvalidCharacterError on these inputs.
atobThrows(str) ==
  LET d == atobStrip(str)
  IN  \/ Len(d) % 4 = 1
      \/ \E i \in 1..Len(d) : ~IsB64Char(d[i])

\* decodeBase64: the bytes of atob(base64), six bits a character, the
\* left-over bits of the last group dropped.
decodeBase64(base64) ==
  LET d  == atobStrip(base64)
      nb == (Len(d) * 6) \div 8
  IN  [i \in 1..nb |->
         LET bit == 8 * (i - 1)
             j   == (bit \div 6) + 1
             off == bit % 6
             w   == B64Val(d[j]) * 64 + B64Val(d[j+1])
         IN  (w \div (2 ^ (4 - off))) % 256]

\* new Int16Array(data.buffer, data.byteOffset, data.length / 2): the length
\* is truncated to an integer.
FrameCount(data) == Len(data) \div 2

\* dataInt16[i] read as an unsigned 16-bit value.
Int16At_Unsigned(data, i) == data[2*i - 1] + 256 * data[2*i]

\* dataInt16[i]: little-endian signed 16-bit sample i (1-based here).
Int16At(data, i) ==
  LET u == data[2*i - 1] + 256 * data[2*i]
  IN  IF u >= 32768 THEN u - 65536 ELSE u

\* pcmToAudioBuffer: channelData[i] = dataInt16[i] / 32768.0, kept as the
\* numerator over the fixed denominator 32768.
SampleDenominator == 32768
pcmToAudioBuffer(data) == [i \in 1..FrameCount(data) |-> Int16At(data, i)]

\* ----------------------------------------------- Synthesizer's answers
P4 == << "A","A","D","/","f","w","=","=" >>  \* bytes 00 00 FF 7F: 2 samples
P1 == << "A","A","=","=" >>                  \* byte 00: no whole sample
PBad == << "A","!","A","A" >>                \* not base64

Responses ==
  { [kind |-> "reject", data |-> << >>],     \* generateContent rejects
    [kind |-> "nodata", data |-> << >>] }    \* no inlineData.data
  \cup { [kind |-> "data", data |-> p] : p \in {P4, P1, PBad} }


\* ------------------------------------------------------------------ state
VARIABLES
  apiKey,           \* process.env.API_KEY is set
  ctxState,         \* audioContext.state as playTTS reads it
  audioCache,       \* Map text -> bytes
  pendingRequests,  \* Map text -> promise (the number of the attempt)
  inflight,         \* synthesis attempts suspended at generateContent
  calls,            \* synthesis attempts made so far, per text
  plays,            \* the playTTS calls so far, in call order
  waitq,            \* playTTS calls suspended on a fetch, in await order
  currentSource,    \* index in plays of the call owning currentSource, or 0
  prefetchers,      \* UI prefetchTTS calls whose promise is unsettled
  answered,         \* the Synthesizer answer handled by the last step, if any,
                    \*   or the text a UI prefetchTTS call found cached in it,
                    \*   or the voice a UI call passed in it
  rejected,         \* the promises of prefetchTTS that were rejected
  lastStarted,      \* index in plays of the call whose source.start(0) ran
                    \*   last, or 0
  decData,          \* pcmToAudioBuffer run on its own: its argument data
  decStage,         \*   "idle", "input", "done" or "threw"
  decBuffer,        \*   the channel data of the buffer it returned
  view,             \* App: the view shown (AppView)
  resultStack,      \* App: the nested results, the current one last
  navHistory,       \* App: the views left for a result, the latest last
  notebook,         \* App: the saved entries, the latest first
  analysing,        \* App: performSearch calls suspended at analyzeText
  nextId,           \* App: entries created so far (their id is a time stamp)
  did               \* App: the branch saveToNotebook or handleBack took in
                    \*   the last step, "none" after any other step

appVars == << view, resultStack, navHistory, notebook, analysing, nextId, did >>

vars == << apiKey, ctxState, audioCache, pendingRequests, inflight, calls,
           plays, waitq, currentSource, prefetchers, answered, rejected,
           lastStarted, decData, decStage, decBuffer, appVars >>

\* The module-level state the TTS functions work on, as one value.
S == [ audioCache      |-> audioCache,
       pendingRequests |-> pendingRequests,
       inflight        |-> inflight,
       calls           |-> calls,
       plays           |-> plays,
       waitq           |-> waitq,
       currentSource   |-> currentSource,
       rejected        |-> rejected,
       lastStarted     |-> lastStarted ]

Apply(s) ==
  /\ audioCache'      = s.audioCache
  /\ pendingRequests' = s.pendingRequests
  /\ inflight'        = s.inflight
  /\ calls'           = s.calls
  /\ plays'           = s.plays
  /\ waitq'           = s.waitq
  /\ currentSource'   = s.currentSource
  /\ rejected'        = s.rejected
  /\ lastStarted'     = s.lastStarted
  /\ UNCHANGED << decData, decStage, decBuffer, appVars >>

\* Map.set and Map.delete
MapSet(m, k, v) == [x \in DOMAIN m \cup {k} |-> IF x = k THEN v ELSE m[x]]
MapDelete(m, k) == [x \in DOMAIN m \ {k} |-> m[x]]

\* The promise of attempt id for text t is still unsettled.
Unsettled(s, t, id) == \E r \in s.inflight : r.text = t /\ r.id = id

\* voiceName of a call that has passed line 251, its last use; the awaited
\* promise (via, id) is likewise forgotten once the call continues.
NoVoice == "-"

NoAnswer ==
  [text |-> "", id |-> 0, kind |-> "none", data |-> << >>, n |-> 0, woke |-> {},
   voice |-> NoVoice]

\* What a step made by a UI call of prefetchTTS or playTTS leaves in
\* answered: the text when prefetchTTS found it cached (hit), and the text
\* and the voice when the call passed a voiceName other than the default.
CallNote(t, v, hit) ==
  [NoAnswer EXCEPT !.text  = IF hit \/ v # DefaultVoice THEN t ELSE "",
                   !.kind  = IF hit THEN "cached" ELSE "none",
                   !.voice = IF v # DefaultVoice THEN v ELSE NoVoice]

\* App before any interaction: the state of the useState calls of lines
\* 353-365, with nothing loaded from localStorage.
AppIdle ==
  /\ view = "HOME"
  /\ resultStack = << >>
  /\ navHistory = << >>
  /\ notebook = << >>
  /\ analysing = 0
  /\ nextId = 0
  /\ did = "none"

Init ==
  /\ AppIdle
  /\ apiKey \in BOOLEAN
  /\ ctxState \in {"suspended", "running"}
  /\ audioCache = << >>
  /\ pendingRequests = << >>
  /\ inflight = {}
  /\ calls = [t \in Texts |-> 0]
  /\ plays = << >>
  /\ waitq = << >>
  /\ currentSource = 0
  /\ prefetchers = {}
  /\ answered = NoAnswer
  /\ rejected = {}
  /\ lastStarted = 0
  /\ decData = << >>
  /\ decStage = "idle"
  /\ decBuffer = << >>

\* ------------------------------------------------- try / catch / finally
\* The try part of lines 184-203 throws: generateContent rejects, or atob
\* throws on the data.  (getAI throwing is the case of startFetch.)
tryThrows(resp) ==
  \/ resp.kind = "reject"
  \/ resp.kind = "data" /\ resp.data # << >> /\ atobThrows(resp.data)

\* The async block without its catch: what is thrown rejects the promise.
blockOutcome_NoCatch(threw) == IF threw THEN "rejected" ELSE "fulfilled"

\* How the promise of the async block of lines 183-209 settles: the catch of
\* lines 204-205 logs what was thrown and the block runs to its end.
blockOutcome(threw) == IF threw THEN "fulfilled" ELSE "fulfilled"

\* ------------------------------------------------------------ prefetchTTS
\* The async block of lines 183-211, up to its first suspension: getAI()
\* throws when the key is missing, and then the block runs catch and finally
\* (a delete of a key not yet set) to its end before line 211 sets the entry.
startFetch(s, t, v) ==
  LET id == s.calls[t] + 1
  IN  IF apiKey
        THEN [s EXCEPT !.calls[t] = id,
                       !.inflight = @ \cup {[text |-> t, id |-> id, voice |-> v]},
                       !.pendingRequests = MapSet(@, t, id)]
        ELSE [s EXCEPT !.calls[t] = id,
                       !.pendingRequests = MapSet(@, t, id),
                       !.rejected = IF blockOutcome(TRUE) = "rejected"
                                      THEN @ \cup {<< t, id >>} ELSE @]

\* prefetchTTS without the check of line 179.
prefetchTTS_NoJoin(s, t, v) ==
  IF t \in DOMAIN s.audioCache THEN s ELSE startFetch(s, t, v)

\* prefetchTTS without the check of line 176.
prefetchTTS_NoCacheCheck(s, t, v) ==
  IF t \in DOMAIN s.pendingRequests THEN s ELSE startFetch(s, t, v)

\* prefetchTTS that looks a text up only for the default voice.
prefetchTTS_PerVoice(s, t, v) ==
  IF v # DefaultVoice THEN startFetch(s, t, v)
  ELSE IF t \in DOMAIN s.audioCache THEN s
  ELSE IF t \in DOMAIN s.pendingRequests THEN s
  ELSE startFetch(s, t, v)

prefetchTTS(s, t, v) ==
  IF t \in DOMAIN s.audioCache THEN s
  ELSE IF t \in DOMAIN s.pendingRequests THEN s
  ELSE startFetch(s, t, v)

\* The promise prefetchTTS returns from state s (0: Promise.resolve()).
Returned(s, t) ==
  IF t \in DOMAIN s.audioCache THEN 0
  ELSE IF t \in DOMAIN s.pendingRequests THEN s.pendingRequests[t]
  ELSE s.calls[t] + 1

\* ------------------------------------------------------------- stopAudio
\* stopAudio that also abandons the fetches in flight.
stopAudio_Abort(s) ==
  LET s1 == [s EXCEPT !.inflight = {}, !.pendingRequests = << >>]
  IN  IF s1.currentSource # 0
        THEN [s1 EXCEPT !.plays[s1.currentSource].src =
                           IF @ = "playing" THEN "halted" ELSE @,
                        !.currentSource = 0]
        ELSE s1

\* stopAudio without line 223.
stopAudio_KeepHandle(s) ==
  IF s.currentSource # 0
    THEN [s EXCEPT !.plays[s.currentSource].src =
                      IF @ = "playing" THEN "halted" ELSE @]
    ELSE s

stopAudio(s) ==
  IF s.currentSource # 0
    THEN [s EXCEPT !.plays[s.currentSource].src =
                      IF @ = "playing" THEN "halted" ELSE @,
                   !.currentSource = 0]
    ELSE s

\* --------------------------------------------------------------- playTTS
\* Lines 256-276: the call has its answer.  createBuffer throws
\* NotSupportedError for a buffer of zero frames.
\* finish without line 275, and dropping the current source instead.
finish_Silent(s, c) ==
  LET t  == s.plays[c].text
      s1 == [s EXCEPT !.plays[c].voice = NoVoice,
                      !.plays[c].via = "none",
                      !.plays[c].id = 0]
  IN  IF t \in DOMAIN s.audioCache
        THEN IF FrameCount(s.audioCache[t]) = 0
               THEN [s1 EXCEPT !.plays[c].pc = "threw"]
               ELSE [s1 EXCEPT !.plays[c].pc = "started",
                               !.plays[c].src = "playing",
                               !.plays[c].buf = pcmToAudioBuffer(s.audioCache[t]),
                               !.currentSource = c,
                               !.lastStarted = c]
        ELSE [s1 EXCEPT !.plays[c].pc = "done",
                        !.currentSource = 0]

\* finish whose line 263 takes the handle only when none is held.
finish_KeepCurrent(s, c) ==
  LET t  == s.plays[c].text
      s1 == [s EXCEPT !.plays[c].voice = NoVoice,
                      !.plays[c].via = "none",
                      !.plays[c].id = 0]
  IN  IF t \in DOMAIN s.audioCache
        THEN IF FrameCount(s.audioCache[t]) = 0
               THEN [s1 EXCEPT !.plays[c].pc = "threw"]
               ELSE [s1 EXCEPT !.plays[c].pc = "started",
                               !.plays[c].src = "playing",
                               !.plays[c].buf = pcmToAudioBuffer(s.audioCache[t]),
                               !.currentSource = IF @ = 0 THEN c ELSE @,
                               !.lastStarted = c]
        ELSE [s1 EXCEPT !.plays[c].pc = "done",
                        !.plays[c].cb = @ + 1]

\* finish whose buffer is silence while a synthesis request is pending.
finish_Ducked(s, c) ==
  LET t  == s.plays[c].text
      s1 == [s EXCEPT !.plays[c].voice = NoVoice,
                      !.plays[c].via = "none",
                      !.plays[c].id = 0]
  IN  IF t \in DOMAIN s.audioCache
        THEN IF FrameCount(s.audioCache[t]) = 0
               THEN [s1 EXCEPT !.plays[c].pc = "threw"]
               ELSE [s1 EXCEPT !.plays[c].pc = "started",
                               !.plays[c].src = "playing",
                               !.plays[c].buf =
                                  IF DOMAIN s.pendingRequests = {}
                                    THEN pcmToAudioBuffer(s.audioCache[t])
                                    ELSE [i \in 1..FrameCount(s.audioCache[t]) |-> 0],
                               !.currentSource = c,
                               !.lastStarted = c]
        ELSE [s1 EXCEPT !.plays[c].pc = "done",
                        !.plays[c].cb = @ + 1]

finish(s, c) ==
  LET t  == s.plays[c].text
      s1 == [s EXCEPT !.plays[c].voice = NoVoice,
                      !.plays[c].via = "none",
                      !.plays[c].id = 0]
  IN  IF t \in DOMAIN s.audioCache
        THEN IF FrameCount(s.audioCache[t]) = 0
               THEN [s1 EXCEPT !.plays[c].pc = "threw"]
               ELSE [s1 EXCEPT !.plays[c].pc = "started",
                               !.plays[c].src = "playing",
                               !.plays[c].buf = pcmToAudioBuffer(s.audioCache[t]),
                               !.currentSource = c,
                               !.lastStarted = c]
        ELSE [s1 EXCEPT !.plays[c].pc = "done",
                        !.plays[c].cb = @ + 1]

suspend(s, c, via, id) ==
  [s EXCEPT !.plays[c].pc = "fetch",
            !.plays[c].voice = NoVoice,
            !.plays[c].via = via,
            !.plays[c].id = id,
            !.waitq = Append(@, c)]

\* lookup without the check of line 246: an uncached text is always fetched.
lookup_AlwaysFetch(s, c) ==
  LET t == s.plays[c].text
      v == s.plays[c].voice
  IN  IF t \in DOMAIN s.audioCache THEN finish(s, c)
      ELSE LET id == s.calls[t] + 1
               s2 == startFetch(s, t, v)
           IN  IF Unsettled(s2, t, id)
                 THEN suspend(s2, c, "wrapper", id)
                 ELSE finish(s2, c)

\* Lines 242-254.  An await on a settled promise continues in a microtask of
\* the same task.
\* lookup that joins whatever request is pending, for any text.
lookup_JoinAny(s, c) ==
  LET t == s.plays[c].text
      v == s.plays[c].voice
  IN  IF t \in DOMAIN s.audioCache THEN finish(s, c)
      ELSE IF DOMAIN s.pendingRequests # {}
        THEN LET u == CHOOSE x \in DOMAIN s.pendingRequests : TRUE
             IN  IF Unsettled(s, u, s.pendingRequests[u])
                   THEN suspend(s, c, "direct", s.pendingRequests[u])
                   ELSE finish(s, c)
        ELSE LET id == Returned(s, t)
                 s2 == prefetchTTS(s, t, v)
             IN  IF Unsettled(s2, t, id)
                   THEN suspend(s2, c, "wrapper", id)
                   ELSE finish(s2, c)

lookup(s, c) ==
  LET t == s.plays[c].text
      v == s.plays[c].voice
  IN  IF t \in DOMAIN s.audioCache THEN finish(s, c)
      ELSE IF t \in DOMAIN s.pendingRequests
        THEN IF Unsettled(s, t, s.pendingRequests[t])
               THEN suspend(s, c, "direct", s.pendingRequests[t])
               ELSE finish(s, c)
        ELSE LET id == Returned(s, t)
                 s2 == prefetchTTS(s, t, v)
             IN  IF Unsettled(s2, t, id)
                   THEN suspend(s2, c, "wrapper", id)
                   ELSE finish(s2, c)

\* A new playTTS call begins while call a is still open: bookkeeping of which
\* calls were superseded, and in which phase.
Supersede(s) ==
  [s EXCEPT !.plays =
     [a \in DOMAIN @ |->
        IF @[a].sup # "no" THEN @[a]
        ELSE IF @[a].pc \in {"resume", "fetch"}
          THEN [@[a] EXCEPT !.sup = "waiting"]
        ELSE IF @[a].src = "playing"
          THEN [@[a] EXCEPT !.sup = "playing"]
        ELSE @[a]]]

NewCall(t, v) ==
  [text |-> t, voice |-> v, pc |-> "resume", via |-> "none", id |-> 0,
   src |-> "none", buf |-> << >>, cb |-> 0, sup |-> "no"]

\* Lines 232-240, and on when the context is running.
playTTS(s, t, v) ==
  LET s1 == stopAudio(Supersede(s))
      s2 == [s1 EXCEPT !.plays = Append(@, NewCall(t, v))]
      c  == Len(s2.plays)
  IN  IF ctxState = "suspended" THEN s2 ELSE lookup(s2, c)

\* The continuations of the calls in q, one after the other: s1 is the
\* state the first of them leaves to the next.
RECURSIVE wake(_, _)
wake(s, q) ==
  IF q = << >> THEN s
  ELSE CHOOSE out \in {wake(s1, Tail(q)) : s1 \in {finish(s, Head(q))}} : TRUE

\* Lines 199-208 for attempt r answered with resp, then the continuations of
\* the playTTS calls awaiting it: those awaiting the promise itself, then the
\* one awaiting it through the promise of its own prefetchTTS call.
\* settle that tries again by itself when nothing was stored.
settle_Retry(s, r, resp) ==
  LET t  == r.text
      s1 == IF resp.kind = "data" /\ resp.data # << >> /\ ~atobThrows(resp.data)
              THEN [s EXCEPT !.audioCache = MapSet(@, t, decodeBase64(resp.data))]
              ELSE s
      s2 == [s1 EXCEPT !.pendingRequests = MapDelete(@, t),
                       !.inflight = @ \ {r}]
      Mine(c)  == s.plays[c].text = t /\ s.plays[c].id = r.id
      direct   == SelectSeq(s.waitq, LAMBDA c : Mine(c) /\ s.plays[c].via = "direct")
      wrapper  == SelectSeq(s.waitq, LAMBDA c : Mine(c) /\ s.plays[c].via = "wrapper")
      s3 == [s2 EXCEPT !.waitq = SelectSeq(@, LAMBDA c : ~Mine(c))]
      s4 == wake(s3, direct \o wrapper)
  IN  IF t \in DOMAIN s4.audioCache THEN s4 ELSE startFetch(s4, t, r.voice)

\* settle whose finally empties pendingRequests instead of deleting one key.
settle_ClearPending(s, r, resp) ==
  LET t  == r.text
      s1 == IF resp.kind = "data" /\ resp.data # << >> /\ ~atobThrows(resp.data)
              THEN [s EXCEPT !.audioCache = MapSet(@, t, decodeBase64(resp.data))]
              ELSE s
      s2 == [s1 EXCEPT !.pendingRequests = << >>,
                       !.inflight = @ \ {r}]
      Mine(c)  == s.plays[c].text = t /\ s.plays[c].id = r.id
      direct   == SelectSeq(s.waitq, LAMBDA c : Mine(c) /\ s.plays[c].via = "direct")
      wrapper  == SelectSeq(s.waitq, LAMBDA c : Mine(c) /\ s.plays[c].via = "wrapper")
      s3 == [s2 EXCEPT !.waitq = SelectSeq(@, LAMBDA c : ~Mine(c))]
  IN  wake(s3, direct \o wrapper)

\* settle without the finally of lines 206-208.
settle_KeepPending(s, r, resp) ==
  LET t  == r.text
      s1 == IF resp.kind = "data" /\ resp.data # << >> /\ ~atobThrows(resp.data)
              THEN [s EXCEPT !.audioCache = MapSet(@, t, decodeBase64(resp.data))]
              ELSE s
      s2 == [s1 EXCEPT !.inflight = @ \ {r}]
      Mine(c)  == s.plays[c].text = t /\ s.plays[c].id = r.id
      direct   == SelectSeq(s.waitq, LAMBDA c : Mine(c) /\ s.plays[c].via = "direct")
      wrapper  == SelectSeq(s.waitq, LAMBDA c : Mine(c) /\ s.plays[c].via = "wrapper")
      s3 == [s2 EXCEPT !.waitq = SelectSeq(@, LAMBDA c : ~Mine(c))]
  IN  wake(s3, direct \o wrapper)

\* settle that continues only the calls awaiting the promise itself.
settle_DirectOnly(s, r, resp) ==
  LET t  == r.text
      s1 == IF resp.kind = "data" /\ resp.data # << >> /\ ~atobThrows(resp.data)
              THEN [s EXCEPT !.audioCache = MapSet(@, t, decodeBase64(resp.data))]
              ELSE s
      s2 == [s1 EXCEPT !.pendingRequests = MapDelete(@, t),
                       !.inflight = @ \ {r}]
      Mine(c)  == s.plays[c].text = t /\ s.plays[c].id = r.id
      direct   == SelectSeq(s.waitq, LAMBDA c : Mine(c) /\ s.plays[c].via = "direct")
      s3 == [s2 EXCEPT !.waitq = SelectSeq(@, LAMBDA c : ~(Mine(c) /\ s.plays[c].via = "direct"))]
  IN  wake(s3, direct)

\* settle without the test of line 200: a response without data is stored
\* as an empty payload.
settle_StoreEmpty(s, r, resp) ==
  LET t  == r.text
      s1 == IF resp.kind = "data" /\ resp.data # << >> /\ ~atobThrows(resp.data)
              THEN [s EXCEPT !.audioCache = MapSet(@, t, decodeBase64(resp.data))]
              ELSE IF resp.kind = "nodata"
                THEN [s EXCEPT !.audioCache = MapSet(@, t, << >>)]
                ELSE s
      s2 == [s1 EXCEPT !.pendingRequests = MapDelete(@, t),
                       !.inflight = @ \ {r}]
      Mine(c)  == s.plays[c].text = t /\ s.plays[c].id = r.id
      direct   == SelectSeq(s.waitq, LAMBDA c : Mine(c) /\ s.plays[c].via = "direct")
      wrapper  == SelectSeq(s.waitq, LAMBDA c : Mine(c) /\ s.plays[c].via = "wrapper")
      s3 == [s2 EXCEPT !.waitq = SelectSeq(@, LAMBDA c : ~Mine(c))]
  IN  wake(s3, direct \o wrapper)

settle(s, r, resp) ==
  LET t  == r.text
      s1 == IF resp.kind = "data" /\ resp.data # << >> /\ ~atobThrows(resp.data)
              THEN [s EXCEPT !.audioCache = MapSet(@, t, decodeBase64(resp.data))]
              ELSE s
      s2 == [s1 EXCEPT !.pendingRequests = MapDelete(@, t),
                       !.inflight = @ \ {r},
                       !.rejected = IF blockOutcome(tryThrows(resp)) = "rejected"
                                      THEN @ \cup {<< t, r.id >>} ELSE @]
      Mine(c)  == s.plays[c].text = t /\ s.plays[c].id = r.id
      direct   == SelectSeq(s.waitq, LAMBDA c : Mine(c) /\ s.plays[c].via = "direct")
      wrapper  == SelectSeq(s.waitq, LAMBDA c : Mine(c) /\ s.plays[c].via = "wrapper")
      s3 == [s2 EXCEPT !.waitq = SelectSeq(@, LAMBDA c : ~Mine(c))]
  IN  CHOOSE out \in {wake(x, q) : x \in {s3}, q \in {direct \o wrapper}} : TRUE

\* onended that also drops the cache entry of the text that was played.
onended_Evict(s, c) ==
  LET s1 == [s EXCEPT !.plays[c].src = "finished"]
      s2 == IF s1.currentSource = c THEN [s1 EXCEPT !.currentSource = 0] ELSE s1
  IN  [s2 EXCEPT !.plays[c].cb = @ + 1,
                 !.audioCache = MapDelete(@, s.plays[c].text)]

\* onended without the test of line 266: any completion clears the handle.
onended_ClearAlways(s, c) ==
  [s EXCEPT !.plays[c].src = "finished",
            !.plays[c].cb = @ + 1,
            !.currentSource = 0]

\* source.onended, lines 265-270
onended(s, c) ==
  LET s1 == [s EXCEPT !.plays[c].src = "finished"]
      s2 == IF s1.currentSource = c THEN [s1 EXCEPT !.currentSource = 0] ELSE s1
  IN  [s2 EXCEPT !.plays[c].cb = @ + 1]

\* ---------------------------------------------------------------- actions
\* The synthesis attempts made so far, over all texts.
RECURSIVE SumCalls(_)
SumCalls(ts) ==
  IF ts = {} THEN 0
  ELSE LET t == CHOOSE x \in ts : TRUE IN calls[t] + SumCalls(ts \ {t})

\* A step that would make a synthesis attempt for t respects MaxCalls.
CanFetch(t) ==
  (t \notin DOMAIN audioCache /\ t \notin DOMAIN pendingRequests)
     => SumCalls(Texts) < MaxCalls

\* The UI calls awaiting the promise of attempt id for text t.
Awaiting(t, id) == {p \in prefetchers : p.text = t /\ p.id = id}

\* A UI call of prefetchTTS; k numbers the calls that share a promise.
Prefetch(t, v) ==
  /\ Cardinality(prefetchers) < MaxPrefetch
  /\ CanFetch(t)
  /\ LET s2 == prefetchTTS(S, t, v)
         id == Returned(S, t)
     IN  /\ Apply(s2)
         /\ prefetchers' =
              IF Unsettled(s2, t, id)
                THEN prefetchers \cup
                       {[text |-> t, id |-> id, k |-> Cardinality(Awaiting(t, id)) + 1]}
                ELSE prefetchers
  /\ answered' = CallNote(t, v, t \in DOMAIN audioCache)
  /\ UNCHANGED << apiKey, ctxState >>

Play(t, v) ==
  /\ Len(plays) < MaxPlays
  /\ ctxState = "running" => CanFetch(t)
  /\ Apply(playTTS(S, t, v))
  /\ answered' = CallNote(t, v, FALSE)
  /\ UNCHANGED << apiKey, ctxState, prefetchers >>

\* ctx.resume() settles for the earliest call awaiting it.
ResumeDone(c) ==
  /\ c \in DOMAIN plays
  /\ plays[c].pc = "resume"
  /\ \A a \in 1..(c-1) : plays[a].pc # "resume"
  /\ CanFetch(plays[c].text)
  /\ ctxState' = "running"
  /\ Apply(lookup(S, c))
  /\ answered' = NoAnswer
  /\ UNCHANGED << apiKey, prefetchers >>

Stop ==
  /\ Apply(stopAudio(S))
  /\ answered' = NoAnswer
  /\ UNCHANGED << apiKey, ctxState, prefetchers >>

\* The Synthesizer answers an attempt in flight for text t.
SynthAnswer(t, resp) ==
  \E r \in inflight :
    /\ r.text = t
    /\ answered' = [text |-> r.text, id |-> r.id, kind |-> resp.kind,
                    data |-> resp.data,
                    n |-> Cardinality(Awaiting(r.text, r.id)),
                    woke |-> {c \in DOMAIN plays : plays[c].pc = "fetch" /\
                                plays[c].text = r.text /\ plays[c].id = r.id},
                    voice |-> r.voice]
    /\ prefetchers' = prefetchers \ Awaiting(r.text, r.id)
    /\ UNCHANGED << apiKey, ctxState >>
    /\ \E s2 \in {settle(S, r, resp)} : Apply(s2)

SourceEnded(c) ==
  /\ c \in DOMAIN plays
  /\ plays[c].src \in {"playing", "halted"}
  /\ Apply(onended(S, c))
  /\ answered' = NoAnswer
  /\ UNCHANGED << apiKey, ctxState, prefetchers >>

Next ==
  \/ \E t \in Texts, v \in UIVoices : Prefetch(t, v)
  \/ \E t \in Texts, v \in UIVoices : Play(t, v)
  \/ \E c \in 1..MaxPlays : ResumeDone(c)
  \/ Stop
  \/ \E t \in Texts, resp \in Responses : SynthAnswer(t, resp)
  \/ \E c \in 1..MaxPlays : SourceEnded(c)

Spec == Init /\ [][Next]_vars


\* ------------------------------------------- calls that pass a voiceName
\* playTTS and prefetchTTS called with a voiceName, any of the three.  The
\* Synthesizer returns audio that depends on the voice it was asked for.
\* The one text whose requests differ in their voice.
VoiceTexts == {"A"}

PPuck   == << "A","Q","A","A","A","A","=","=" >>  \* bytes 01 00 00 00
PCharon == << "A","g","A","A","A","A","=","=" >>  \* bytes 02 00 00 00

VoiceData(v) ==
  CASE v = "Kore"   -> P4
    [] v = "Puck"   -> PPuck
    [] v = "Charon" -> PCharon

\* The Synthesizer answers the attempt in flight for t: with the audio of the
\* voice the attempt was made with, or (ok false) by rejecting.
SynthAnswerVoice(t, ok) ==
  \E r \in inflight :
    /\ r.text = t
    /\ SynthAnswer(t, IF ok THEN [kind |-> "data", data |-> VoiceData(r.voice)]
                            ELSE [kind |-> "reject", data |-> << >>])

NextVoice ==
  \/ \E t \in VoiceTexts, v \in Voices : Prefetch(t, v)
  \/ \E t \in VoiceTexts, v \in Voices : Play(t, v)
  \/ \E c \in 1..MaxPlays : ResumeDone(c)
  \/ Stop
  \/ \E t \in VoiceTexts, ok \in BOOLEAN : SynthAnswerVoice(t, ok)
  \/ \E c \in 1..MaxPlays : SourceEnded(c)

SpecVoice == Init /\ [][NextVoice]_vars


\* --------------------------------------- a Synthesizer call that never answers
\* generateContent never settles for HungText; for every other text it
\* answers with audio.  The key is set, so that an attempt does reach
\* generateContent.
HungText == "A"

InitHung == Init /\ apiKey = TRUE

SynthAnswerAudio(t) ==
  /\ t # HungText
  /\ SynthAnswer(t, [kind |-> "data", data |-> P4])

NextHung ==
  \/ \E t \in Texts, v \in UIVoices : Prefetch(t, v)
  \/ \E t \in Texts, v \in UIVoices : Play(t, v)
  \/ \E c \in 1..MaxPlays : ResumeDone(c)
  \/ Stop
  \/ \E t \in Texts : SynthAnswerAudio(t)
  \/ \E c \in 1..MaxPlays : SourceEnded(c)

\* The tasks the event loop has to run without any further call from the
\* UI: the continuation of ctx.resume(), the answer of the Synthesizer for
\* the other texts, and the `ended' event of a source that was started.
ReadyTask ==
  \/ \E c \in 1..MaxPlays : ResumeDone(c)
  \/ \E t \in Texts : SynthAnswerAudio(t)
  \/ \E c \in 1..MaxPlays : SourceEnded(c)

\* The event loop does not stop while a task is ready.
FairHung == WF_vars(ReadyTask)

SpecHung == InitHung /\ [][NextHung]_vars /\ FairHung


\* ------------------------------------------------------------------- App
\* The handlers of App (src/unnamed/part_001, lines 347-495 and the onClick
\* handlers of its render functions) on view, resultStack, navHistory and
\* notebook.  An entry is its id and its originalText; the text searched and
\* the originalText of the analysis are texts of Texts.
ttsVars == << apiKey, ctxState, audioCache, pendingRequests, inflight, calls,
              plays, waitq, currentSource, prefetchers, answered, rejected,
              lastStarted, decData, decStage, decBuffer >>

\* A call of a TTS function from a handler of App, which awaits nothing.
ApplyTTS(s) ==
  /\ audioCache'      = s.audioCache
  /\ pendingRequests' = s.pendingRequests
  /\ inflight'        = s.inflight
  /\ calls'           = s.calls
  /\ plays'           = s.plays
  /\ waitq'           = s.waitq
  /\ currentSource'   = s.currentSource
  /\ rejected'        = s.rejected
  /\ lastStarted'     = s.lastStarted
  /\ answered'        = NoAnswer
  /\ UNCHANGED << apiKey, ctxState, prefetchers, decData, decStage, decBuffer >>

AppViews == {"HOME", "RESULT", "NOTEBOOK", "STORY", "FLASHCARDS"}

\* mainScrollRef.current.scrollTop
ScrollPositions == {0, 40}

\* The notebook found in localStorage at start (line 374-375): none, or one
\* entry of an earlier session.
SavedNotebooks == { << >>, << [id |-> 0, originalText |-> "A"] >> }

\* currentResult (line 359); null is NoResult.
NoResult == [id |-> -1, originalText |-> ""]
CurrentResult ==
  IF Len(resultStack) > 0 THEN resultStack[Len(resultStack)] ELSE NoResult

InitApp ==
  /\ apiKey = TRUE
  /\ ctxState = "suspended"
  /\ audioCache = << >>
  /\ pendingRequests = << >>
  /\ inflight = {}
  /\ calls = [t \in Texts |-> 0]
  /\ plays = << >>
  /\ waitq = << >>
  /\ currentSource = 0
  /\ prefetchers = {}
  /\ answered = NoAnswer
  /\ rejected = {}
  /\ lastStarted = 0
  /\ decData = << >>
  /\ decStage = "idle"
  /\ decBuffer = << >>
  /\ view = "HOME"
  /\ resultStack = << >>
  /\ navHistory = << >>
  /\ notebook \in SavedNotebooks
  /\ analysing = 0
  /\ nextId = 0
  /\ did = "none"

\* saveToNotebook that compares the id of the entries.
saveToNotebook_ById(nb, cur, entry) ==
  IF cur = NoResult THEN nb
  ELSE IF \E i \in DOMAIN nb : nb[i].id = entry.id THEN nb
  ELSE << cur >> \o nb

\* saveToNotebook, lines 490-495: the notebook it sets.
saveToNotebook(nb, cur, entry) ==
  IF cur = NoResult THEN nb
  ELSE IF \E i \in DOMAIN nb : nb[i].originalText = entry.originalText THEN nb
  ELSE << cur >> \o nb

\* The branch saveToNotebook takes.
saveBranch(nb, cur, entry) ==
  IF cur = NoResult THEN "save:null"
  ELSE IF \E i \in DOMAIN nb : nb[i].originalText = entry.originalText
    THEN "save:present"
  ELSE "save:added"

\* view, resultStack and navHistory as one value.
Nav == [view |-> view, resultStack |-> resultStack, navHistory |-> navHistory]

\* handleBack that also drops the latest history item when it pops a result.
handleBack_PopBoth(a) ==
  IF Len(a.resultStack) > 1
    THEN [a EXCEPT !.resultStack = SubSeq(@, 1, Len(@) - 1),
                   !.navHistory = SubSeq(@, 1, Len(@) - 1)]
  ELSE IF Len(a.navHistory) > 0
    THEN [view        |-> a.navHistory[Len(a.navHistory)].view,
          navHistory  |-> SubSeq(a.navHistory, 1, Len(a.navHistory) - 1),
          resultStack |-> << >>]
  ELSE [a EXCEPT !.view = "HOME", !.resultStack = << >>]

\* handleBack, lines 463-488
handleBack(a) ==
  IF Len(a.resultStack) > 1
    THEN [a EXCEPT !.resultStack = SubSeq(@, 1, Len(@) - 1)]
  ELSE IF Len(a.navHistory) > 0
    THEN [view        |-> a.navHistory[Len(a.navHistory)].view,
          navHistory  |-> SubSeq(a.navHistory, 1, Len(a.navHistory) - 1),
          resultStack |-> << >>]
  ELSE [a EXCEPT !.view = "HOME", !.resultStack = << >>]

backBranch(a) ==
  IF Len(a.resultStack) > 1 THEN "back:pop"
  ELSE IF Len(a.navHistory) > 0 THEN "back:view"
  ELSE "back:home"

\* prefetchTTS for every text of ts (the forEach of line 399)
RECURSIVE prefetchAll(_, _)
prefetchAll(s, ts) ==
  IF ts = {} THEN s
  ELSE LET t == CHOOSE x \in ts : TRUE
       IN  prefetchAll(prefetchTTS(s, t, DefaultVoice), ts \ {t})

\* The calls of prefetchTTS for ts respect MaxCalls.
CanFetchAll(ts) ==
  SumCalls(Texts)
    + Cardinality({t \in ts : t \notin DOMAIN audioCache /\
                                t \notin DOMAIN pendingRequests}) <= MaxCalls

\* handleSearch, lines 438-447, and performSearch up to the await of line 394
\* (the button is in the HOME view)
HandleSearch(text) ==
  /\ view = "HOME"
  /\ analysing < MaxAnalysing
  /\ CanFetchAll({text})
  /\ ApplyTTS(prefetchTTS(prefetchTTS(S, text, DefaultVoice), text, DefaultVoice))
  /\ resultStack' = << >>
  /\ navHistory' = << >>
  /\ analysing' = analysing + 1
  /\ did' = "none"
  /\ UNCHANGED << view, notebook, nextId >>

\* handleDeepDive, lines 449-461, and performSearch up to its await: a word
\* is clicked in ResultView, in the story or on a flashcard.
HandleDeepDive(word, scrollPos) ==
  /\ \/ view = "RESULT" /\ resultStack # << >>
     \/ view = "STORY"
     \/ view = "FLASHCARDS" /\ notebook # << >>
  /\ analysing < MaxAnalysing
  /\ view # "RESULT" => Len(navHistory) < MaxHistory
  /\ CanFetchAll({word})
  /\ ApplyTTS(prefetchTTS(prefetchTTS(S, word, DefaultVoice), word, DefaultVoice))
  /\ IF view # "RESULT"
       THEN /\ navHistory' = Append(navHistory,
                                [view |-> view, scrollPosition |-> scrollPos])
            /\ resultStack' = << >>
       ELSE UNCHANGED << navHistory, resultStack >>
  /\ analysing' = analysing + 1
  /\ did' = "none"
  /\ UNCHANGED << view, notebook, nextId >>

\* performSearch from line 394 on: analyzeText answers with an analysis of
\* originalText `original' whose examples are the texts exs.
AnalysisDone(original, exs) ==
  /\ analysing > 0
  /\ nextId < MaxEntries
  /\ CanFetchAll(exs)
  /\ ApplyTTS(prefetchAll(S, exs))
  /\ resultStack' = Append(resultStack,
                           [id |-> nextId + 1, originalText |-> original])
  /\ view' = "RESULT"
  /\ nextId' = nextId + 1
  /\ analysing' = analysing - 1
  /\ did' = "none"
  /\ UNCHANGED << navHistory, notebook >>

\* performSearch, lines 429-433: analyzeText rejects.
AnalysisFailed ==
  /\ analysing > 0
  /\ analysing' = analysing - 1
  /\ did' = "none"
  /\ UNCHANGED << ttsVars, view, resultStack, navHistory, notebook, nextId >>

\* The Back button of ResultView (part_001 line 99: stopAudio, then onBack).
\* The button is rendered only if showBack (line 762: more than one result
\* or a non-empty history); handleBack is run here whenever ResultView is
\* rendered, which adds the steps of its last branch and removes none.
HandleBack ==
  /\ view = "RESULT"
  /\ resultStack # << >>
  /\ ApplyTTS(stopAudio(S))
  /\ view' = handleBack(Nav).view
  /\ resultStack' = handleBack(Nav).resultStack
  /\ navHistory' = handleBack(Nav).navHistory
  /\ did' = backBranch(Nav)
  /\ UNCHANGED << notebook, analysing, nextId >>

\* The Save button of ResultView (part_001 line 263: onSave(result), result
\* being currentResult), and saveToNotebook run with no current result.
\* The button is disabled when the result's originalText is in the notebook
\* (lines 264, 761); saveToNotebook is run here in those states too, which
\* adds the steps of its own guards (lines 491, 492) and removes none.
SaveToNotebook(entry) ==
  /\ IF resultStack # << >>
       THEN view = "RESULT" /\ entry = CurrentResult
       ELSE entry.id = 0
  /\ notebook' = saveToNotebook(notebook, CurrentResult, entry)
  /\ did' = saveBranch(notebook, CurrentResult, entry)
  /\ UNCHANGED << ttsVars, view, resultStack, navHistory, analysing, nextId >>

\* An entry of the notebook is clicked, lines 632-638
OpenNotebookEntry(i, scrollPos) ==
  /\ view = "NOTEBOOK"
  /\ i \in DOMAIN notebook
  /\ Len(navHistory) < MaxHistory
  /\ resultStack' = << notebook[i] >>
  /\ navHistory' = Append(navHistory,
                          [view |-> "NOTEBOOK", scrollPosition |-> scrollPos])
  /\ view' = "RESULT"
  /\ did' = "none"
  /\ UNCHANGED << ttsVars, notebook, analysing, nextId >>

\* The bottom navigation, lines 774-795
TabSearch ==
  /\ view' = "HOME"
  /\ resultStack' = << >>
  /\ navHistory' = << >>
  /\ did' = "none"
  /\ UNCHANGED << ttsVars, notebook, analysing, nextId >>

TabNotebook ==
  /\ view' = "NOTEBOOK"
  /\ navHistory' = << >>
  /\ did' = "none"
  /\ UNCHANGED << ttsVars, resultStack, notebook, analysing, nextId >>

TabStudy ==
  /\ view' = "FLASHCARDS"
  /\ navHistory' = << >>
  /\ did' = "none"
  /\ UNCHANGED << ttsVars, resultStack, notebook, analysing, nextId >>

NextApp ==
  \/ \E text \in Texts : HandleSearch(text)
  \/ \E word \in Texts, scrollPos \in ScrollPositions : HandleDeepDive(word, scrollPos)
  \/ \E original \in Texts, exs \in SUBSET Texts : AnalysisDone(original, exs)
  \/ AnalysisFailed
  \/ HandleBack
  \/ \E entry \in [id : 0..MaxEntries, originalText : Texts] : SaveToNotebook(entry)
  \/ \E i \in 1..(MaxEntries + 1), scrollPos \in ScrollPositions :
        OpenNotebookEntry(i, scrollPos)
  \/ TabSearch
  \/ TabNotebook
  \/ TabStudy

SpecApp == InitApp /\ [][NextApp]_vars


\* ------------------------------------------------- the decoder on its own
\* pcmToAudioBuffer applied to every payload of at most MaxBytes bytes drawn
\* from SampleBytes, outside any playback.
SampleBytes == {0, 1, 127, 128, 255}

DecInputs == UNION {[1..n -> SampleBytes] : n \in 0..MaxBytes}

InitDecode ==
  /\ AppIdle
  /\ apiKey = TRUE
  /\ ctxState = "running"
  /\ audioCache = << >>
  /\ pendingRequests = << >>
  /\ inflight = {}
  /\ calls = [t \in Texts |-> 0]
  /\ plays = << >>
  /\ waitq = << >>
  /\ currentSource = 0
  /\ prefetchers = {}
  /\ answered = NoAnswer
  /\ rejected = {}
  /\ lastStarted = 0
  /\ decData \in DecInputs
  /\ decStage = "input"
  /\ decBuffer = << >>

\* Lines 160-171; createBuffer throws NotSupportedError for zero frames.
DecodePcm ==
  /\ decStage = "input"
  /\ IF FrameCount(decData) = 0
       THEN decStage' = "threw" /\ decBuffer' = << >>
       ELSE decStage' = "done" /\ decBuffer' = pcmToAudioBuffer(decData)
  /\ UNCHANGED << apiKey, ctxState, audioCache, pendingRequests, inflight,
                  calls, plays, waitq, currentSource, prefetchers, answered,
                  rejected, lastStarted, decData, appVars >>

NextDecode == DecodePcm

SpecDecode == InitDecode /\ [][NextDecode]_vars

\* ------------------------------------------------------------- invariants
IsBytes(d) == DOMAIN d = 1..Len(d) /\ \A i \in DOMAIN d : d[i] \in 0..255

TypeOK ==
  /\ apiKey \in BOOLEAN
  /\ ctxState \in {"suspended", "running"}
  /\ DOMAIN audioCache \subseteq Texts
  /\ \A t \in DOMAIN audioCache : IsBytes(audioCache[t])
  /\ DOMAIN pendingRequests \subseteq Texts
  /\ \A t \in DOMAIN pendingRequests : pendingRequests[t] \in 1..MaxCalls
  /\ inflight \subseteq [text : Texts, id : 1..MaxCalls, voice : Voices]
  /\ calls \in [Texts -> 0..MaxCalls]
  /\ Len(plays) <= MaxPlays
  /\ \A c \in DOMAIN plays :
       /\ [f \in DOMAIN plays[c] \ {"buf"} |-> plays[c][f]]
            \in [text : Texts, voice : Voices \cup {NoVoice},
                 pc : {"resume", "fetch", "started", "done", "threw"},
                 via : {"none", "direct", "wrapper"}, id : 0..MaxCalls,
                 src : {"none", "playing", "halted", "finished"},
                 cb : 0..1, sup : {"no", "waiting", "playing"}]
       /\ DOMAIN plays[c].buf = 1..Len(plays[c].buf)
       /\ \A i \in DOMAIN plays[c].buf : plays[c].buf[i] \in -32768..32767
  /\ \A i \in DOMAIN waitq : waitq[i] \in DOMAIN plays /\ plays[waitq[i]].pc = "fetch"
  /\ currentSource \in 0..Len(plays)
  /\ prefetchers \subseteq [text : Texts, id : 1..MaxCalls, k : 1..MaxPrefetch]
  /\ rejected \subseteq Texts \X (1..MaxCalls)
  /\ lastStarted \in 0..Len(plays)
  /\ view \in AppViews
  /\ \A i \in DOMAIN resultStack :
       resultStack[i] \in [id : 0..MaxEntries, originalText : Texts]
  /\ Len(navHistory) <= MaxHistory
  /\ \A i \in DOMAIN navHistory :
       navHistory[i] \in [view : AppViews \ {"RESULT"}, scrollPosition : ScrollPositions]
  /\ \A i \in DOMAIN notebook :
       notebook[i] \in [id : 0..MaxEntries, originalText : Texts]
  /\ analysing \in 0..MaxAnalysing
  /\ nextId \in 0..MaxEntries
  /\ did \in {"none", "save:null", "save:present", "save:added",
              "back:pop", "back:view", "back:home"}
  /\ IsBytes(decData) /\ Len(decData) <= MaxBytes
  /\ decStage \in {"idle", "input", "done", "threw"}
  /\ DOMAIN decBuffer = 1..Len(decBuffer)

\* The sources that are audible: started, and neither ended nor stopped.
Audible == {c \in DOMAIN plays : plays[c].src = "playing"}

\* The synthesis attempts in flight for text t.
InFlight(t) == {r \in inflight : r.text = t}

\* C1: the prefetch calls that are waiting for a text all share one
\* attempt, which is the only attempt in flight for the text and the only
\* one made since the first of them was issued.
C1_SingleFlight ==
  \A t \in Texts :
    /\ Cardinality(InFlight(t)) <= 1
    /\ \A p \in prefetchers :
         p.text = t => \E r \in InFlight(t) : r.id = p.id /\ r.id = calls[t]

C1_Witness ==
  \E t \in Texts :
    /\ Cardinality({p \in prefetchers : p.text = t}) >= 2
    /\ calls[t] = 1

\* C2: at most one source is audible in every reachable state.
C2_AtMostOneAudible == Cardinality(Audible) <= 1

\* C3: a call superseded before its audio resolved never has its onEnded
\* invoked, and no call has its onEnded invoked before it is over or more
\* than once.
C3_SupersededWaitingNeverCalledBack ==
  \A c \in DOMAIN plays :
    /\ plays[c].sup = "waiting" => plays[c].cb = 0
    /\ plays[c].cb <= 1
    /\ plays[c].cb = 1 => (plays[c].pc = "done" \/ plays[c].src = "finished")

\* C4: a call superseded while its source was playing never has its onEnded
\* invoked.
C4_SupersededPlayingNeverCalledBack ==
  \A c \in DOMAIN plays : plays[c].sup = "playing" => plays[c].cb = 0

\* C5: only the call that began last can own the current source.
C5_LastPlayOwnsDevice == currentSource \in {0, Len(plays)}

\* C6: once the attempt for a text has finished, the text is not pending.
C6_FinishedAttemptNotPending ==
  \A t \in DOMAIN pendingRequests : Unsettled(S, t, pendingRequests[t])

\* A call is over: it ended without audio, it threw, or its source has
\* delivered its `ended' event.
Over(c) == plays[c].pc \in {"done", "threw"} \/ plays[c].src = "finished"

\* C7: a call that was not superseded has its onEnded invoked exactly once
\* when it is over, and never more than once.
C7_ExactlyOneCallback ==
  \A c \in DOMAIN plays :
    plays[c].sup = "no" =>
      /\ plays[c].cb <= 1
      /\ Over(c) => plays[c].cb = 1

\* C8: a call whose resolution finds no audio creates no source, leaves the
\* current source as it was (as its own stopAudio left it, when the call
\* resolves in the step that makes it) and invokes onEnded in that step.
C8_NoAudioCallsBackAtOnce ==
  [][\A c \in DOMAIN plays' :
       ( /\ plays'[c].pc \notin {"resume", "fetch"}
         /\ c \in DOMAIN plays => plays[c].pc \in {"resume", "fetch"}
         /\ plays'[c].text \notin DOMAIN audioCache' )
       => /\ plays'[c].src = "none"
          /\ plays'[c].cb = 1
          /\ currentSource' = IF c \in DOMAIN plays THEN currentSource ELSE 0
     ]_vars

C8_Witness ==
  \E c \in DOMAIN plays :
    /\ plays[c].pc = "done" /\ plays[c].cb = 1 /\ plays[c].src = "none"
    /\ currentSource \notin {0, c}
    /\ c \in answered.woke

\* C9: when the Synthesizer call for a text fails, the text has no cache
\* entry afterwards and the failed attempt is the last one made for it: no
\* attempt is in flight for the text.
C9_FailureStoresNothingNoRetry ==
  answered.kind = "reject" =>
    /\ answered.text \notin DOMAIN audioCache
    /\ calls[answered.text] = answered.id
    /\ InFlight(answered.text) = {}

C9_Witness ==
  /\ answered.kind = "reject"
  /\ answered.id = 2

\* C10: no caller is left waiting on an attempt that has completed: the UI
\* calls of prefetchTTS and the playTTS calls awaiting one all continue in
\* the step of its completion, and the playTTS calls continued by one answer
\* all take the same branch.
C10_AllResolveTogether ==
  /\ \A p \in prefetchers : Unsettled(S, p.text, p.id)
  /\ \A c \in DOMAIN plays :
       plays[c].pc = "fetch" => Unsettled(S, plays[c].text, plays[c].id)
  /\ \A c1, c2 \in answered.woke : plays[c1].pc = plays[c2].pc

C10_Witness ==
  /\ answered.n >= 2
  /\ answered.woke # {}
  /\ answered.kind = "reject"

\* C11: a cache entry, once present, is never removed and never changes.
C11_CacheEntryImmutable ==
  [][\A t \in DOMAIN audioCache :
       t \in DOMAIN audioCache' /\ audioCache'[t] = audioCache[t]]_vars

C11_Witness ==
  \E c \in DOMAIN plays :
    /\ plays[c].src = "finished"
    /\ plays[c].text \in DOMAIN audioCache
    /\ calls[plays[c].text] = 1
    /\ answered.kind = "data"
    /\ answered.text # plays[c].text

\* C12: no promise returned by prefetchTTS is ever rejected, however the
\* attempt fails.
C12_PrefetchNeverRejects == rejected = {}

C12_Witness ==
  /\ answered.kind = "reject"
  /\ answered.n >= 1
  /\ answered.woke = {}
  /\ rejected = {}

\* C13: stop() leaves the controller idle; when it was idle nothing changes,
\* when it was playing the current source is no longer audible and no other
\* call is touched; and a second stop() right after changes nothing.
C13_StopIdempotent ==
  [][Stop =>
       /\ currentSource' = 0
       /\ currentSource = 0 => plays' = plays
       /\ currentSource # 0 =>
            /\ plays'[currentSource].src # "playing"
            /\ \A c \in DOMAIN plays \ {currentSource} : plays'[c] = plays[c]
       /\ stopAudio(S') = S'
     ]_vars

C13_Witness ==
  \E c \in DOMAIN plays :
    /\ plays[c].src = "halted"
    /\ plays[c].sup = "no"
    /\ currentSource = 0
    /\ Len(plays) = c

\* C14: a payload of odd byte length is rejected, so nothing of odd length
\* is ever stored in the cache.
C14_OddLengthNeverStored ==
  \A t \in DOMAIN audioCache : Len(audioCache[t]) % 2 = 0

\* Sample i of the decoded buffer is the signed 16-bit value of byte pair i
\* (low byte first), and divided by 32768 it lies in [-1, 1].
SampleOK(i) ==
  /\ decBuffer[i] \in -32768..32767
  /\ (decBuffer[i] - (decData[2*i - 1] + 256 * decData[2*i])) % 65536 = 0
  /\ -SampleDenominator <= decBuffer[i]
  /\ decBuffer[i] <= SampleDenominator

SameEntry(m1, m2, u) ==
  /\ u \in DOMAIN m1 <=> u \in DOMAIN m2
  /\ u \in DOMAIN m1 => m1[u] = m2[u]

\* C16: the step that handles a failed synthesis for a text leaves the cache
\* entry and the pending entry of every other text, and the current source,
\* as they were.
C16_FailureTouchesOnlyItsText ==
  [][answered'.kind = "reject" =>
       /\ \A u \in Texts \ {answered'.text} :
            /\ SameEntry(audioCache, audioCache', u)
            /\ SameEntry(pendingRequests, pendingRequests', u)
       /\ currentSource' = currentSource
     ]_vars

C16_Witness ==
  /\ answered.kind = "reject"
  /\ currentSource # 0
  /\ plays[currentSource].src = "playing"
  /\ \E u \in Texts \ {answered.text} : u \in DOMAIN audioCache

\* C17: an attempt in flight leaves the set of attempts in flight only by
\* being answered, whatever play and stop calls are made meanwhile; an
\* answer carrying decodable audio stores it under the attempt's text; and a
\* play call for a cached text makes no attempt.
C17_FetchOutlivesPlayback ==
  [][/\ \A r \in inflight :
          r \in inflight' \/ (answered'.text = r.text /\ answered'.id = r.id)
     /\ (answered'.kind = "data" /\ ~atobThrows(answered'.data))
          => /\ answered'.text \in DOMAIN audioCache'
             /\ audioCache'[answered'.text] = decodeBase64(answered'.data)
     /\ (Len(plays') > Len(plays) /\ plays'[Len(plays')].text \in DOMAIN audioCache)
          => calls' = calls
    ]_vars

C17_Witness ==
  \E c \in answered.woke :
    /\ plays[c].sup = "waiting"
    /\ answered.kind = "data"
    /\ plays[c].text \in DOMAIN audioCache
    /\ calls[plays[c].text] = 1

\* C18: no text is both pending and cached, and no attempt is in flight for
\* a cached text, so a text is stored from a pending attempt at most once.
C18_PendingXorCached ==
  \A t \in Texts :
    /\ ~(t \in DOMAIN pendingRequests /\ t \in DOMAIN audioCache)
    /\ t \in DOMAIN audioCache => InFlight(t) = {}

C18_Witness ==
  \E t, u \in Texts :
    /\ t \in DOMAIN audioCache
    /\ u \in DOMAIN pendingRequests
    /\ InFlight(u) # {}

\* C19: the step in which a play call resolves its text makes no attempt
\* when the text is cached (the call goes on with the cached audio) or
\* pending (the call awaits the pending promise), and exactly one attempt
\* when it is neither; and no text ever has two attempts in flight.
C19_PlayJoinsSingleFlight ==
  [][\A c \in DOMAIN plays' :
       ( /\ plays'[c].pc # "resume"
         /\ c \in DOMAIN plays => plays[c].pc = "resume" )
       => LET t == plays'[c].text
          IN  /\ t \in DOMAIN audioCache =>
                   calls' = calls /\ plays'[c].pc \in {"started", "threw"}
              /\ (t \notin DOMAIN audioCache /\ t \in DOMAIN pendingRequests) =>
                   /\ calls' = calls
                   /\ Unsettled(S, t, pendingRequests[t]) =>
                        /\ plays'[c].pc = "fetch"
                        /\ plays'[c].id = pendingRequests[t]
              /\ (t \notin DOMAIN audioCache /\ t \notin DOMAIN pendingRequests) =>
                   calls' = [calls EXCEPT ![t] = @ + 1]
              /\ Cardinality({r \in inflight' : r.text = t}) <= 1
    ]_vars

C19_Witness ==
  \E c \in DOMAIN plays :
    /\ plays[c].pc = "fetch"
    /\ plays[c].via = "direct"
    /\ calls[plays[c].text] = 1
    /\ Awaiting(plays[c].text, plays[c].id) # {}

\* C20: a prefetchTTS call for a cached text changes nothing: no attempt,
\* no caller left waiting, the cache, the pending map, the playTTS calls and
\* the current source as they were.
C20_PrefetchCachedIsNoOp ==
  [][\A t \in Texts, v \in UIVoices :
       (t \in DOMAIN audioCache /\ Prefetch(t, v)) =>
         UNCHANGED << audioCache, pendingRequests, inflight, calls, plays,
                      waitq, currentSource, prefetchers, rejected >>
    ]_vars

C20_Witness ==
  /\ answered.kind = "cached"
  /\ answered.text \in DOMAIN audioCache
  /\ currentSource # 0
  /\ DOMAIN pendingRequests # {}

\* C21: the `ended' event of a source clears the current handle when that
\* source is the current handle, and leaves the current handle as it is when
\* it is not.
C21_StaleEndKeepsHandle ==
  [][\A c \in DOMAIN plays :
       (plays[c].src # "finished" /\ plays'[c].src = "finished") =>
         currentSource' = IF currentSource = c THEN 0 ELSE currentSource
    ]_vars

C21_Witness ==
  \E c \in DOMAIN plays :
    /\ plays[c].src = "finished"
    /\ plays[c].sup = "playing"
    /\ currentSource \notin {0, c}
    /\ plays[currentSource].text = plays[c].text
    /\ plays[currentSource].src = "playing"

\* The playTTS calls suspended at an await: on ctx.resume() or on a fetch.
Suspended == {c \in DOMAIN plays : plays[c].pc \in {"resume", "fetch"}}

\* C22: a stop() issued while a play call is suspended finds no current
\* handle and changes nothing, and a suspended call whose audio resolves to a
\* cache entry creates a source that is audible and is the current handle.
C22_StopDoesNotCancelSuspendedPlay ==
  [][/\ (Stop /\ Suspended # {}) => (currentSource = 0 /\ S' = S)
     /\ \A c \in Suspended :
          (c \notin Suspended' /\ plays[c].text \in DOMAIN audioCache') =>
            /\ plays'[c].pc = "started"
            /\ plays'[c].src = "playing"
            /\ currentSource' = c
    ]_vars

\* C23: a non-null current handle is the source started last, and stop()
\* changes no source but that one.
C23_CurrentIsLastStarted ==
  [][/\ currentSource' # 0 => currentSource' = lastStarted'
     /\ Stop => \A c \in DOMAIN plays \ {lastStarted} : plays'[c] = plays[c]
    ]_vars

C23_Witness ==
  /\ Cardinality(answered.woke) = 2
  /\ \A c \in answered.woke : plays[c].pc = "started"
  /\ currentSource # 0
  /\ currentSource = lastStarted

\* C24: whatever voice a call passes, no step makes an attempt for a text
\* that is cached or pending, a cached entry stays as it is, and an attempt
\* in flight stays as it was made; the audio stored by an answer is the audio
\* of the voice of the attempt, and the calls it continues play it.
C24_KeyedByTextNotVoice ==
  [][/\ \A t \in DOMAIN audioCache \cup DOMAIN pendingRequests :
          /\ calls'[t] = calls[t]
          /\ t \in DOMAIN audioCache => SameEntry(audioCache, audioCache', t)
          /\ \A r \in InFlight(t) : r \in inflight' \/ answered'.id = r.id
     /\ answered'.kind = "data" =>
          /\ audioCache'[answered'.text] = decodeBase64(VoiceData(answered'.voice))
          /\ \A c \in answered'.woke : plays'[c].pc = "started"
    ]_vars

C24_Witness ==
  /\ answered.voice = "Puck"
  /\ answered.kind = "none"
  /\ answered.text \in DOMAIN audioCache
  /\ audioCache[answered.text] = decodeBase64(VoiceData("Kore"))
  /\ calls[answered.text] = 1
  /\ plays # << >>
  /\ plays[Len(plays)].pc = "started"
  /\ lastStarted = Len(plays)

\* The playTTS calls that ran pcmToAudioBuffer (line 257) on the bytes cached
\* for text t: each call that found them.
PcmConversions(t) ==
  {c \in DOMAIN plays : plays[c].text = t /\ plays[c].pc \in {"started", "threw"}}

\* C25: the payload of a text is converted to samples at most once, so
\* replaying a cached text converts nothing.
C25_ConvertedAtMostOnce ==
  \A t \in Texts : Cardinality(PcmConversions(t)) <= 1

\* Every caller for a text other than HungText has been served: no
\* prefetchTTS call is waiting, and every playTTS call has started a source
\* and had its onEnded invoked.  A served caller stays served.
OthersServed ==
  /\ \A p \in prefetchers : p.text = HungText
  /\ \A c \in DOMAIN plays :
       plays[c].text # HungText => (plays[c].src # "none" /\ plays[c].cb = 1)

\* C26: while the attempt for HungText never answers, for every other text
\* a waiting prefetchTTS call is resolved, a playTTS call starts its source
\* and has its onEnded invoked, and stop() leaves no current source.
C26_HungCallBlocksOnlyItsText ==
  /\ []<>OthersServed
  /\ [][Stop => (currentSource' = 0 /\ Audible' \subseteq Audible \ {currentSource})]_vars

C26_Witness ==
  \E c, d \in DOMAIN plays :
    /\ plays[c].text = HungText /\ plays[c].pc = "fetch"
    /\ InFlight(HungText) # {}
    /\ plays[d].text # HungText
    /\ plays[d].src = "finished" /\ plays[d].cb = 1
    /\ c < d

\* C27: when the Synthesizer's response carries no audio data, the text is
\* neither cached nor pending afterwards, every playTTS call that awaited the
\* attempt ends without a source and with its onEnded invoked in that step,
\* and the state is the one a rejected call would have left.
C27_NoDataIsLikeFailure ==
  [][answered'.kind = "nodata" =>
       /\ answered'.text \notin DOMAIN audioCache'
       /\ answered'.text \notin DOMAIN pendingRequests'
       /\ \A c \in answered'.woke :
            /\ plays'[c].pc = "done"
            /\ plays'[c].src = "none"
            /\ plays[c].cb = 0 /\ plays'[c].cb = 1
       /\ \A r \in inflight :
            (r.text = answered'.text /\ r.id = answered'.id) =>
               S' = settle(S, r, [kind |-> "reject", data |-> << >>])
    ]_vars

C27_Witness ==
  /\ answered.kind = "nodata"
  /\ answered.n >= 1
  /\ Cardinality(answered.woke) = 2
  /\ \A c \in answered.woke : plays[c].cb = 1

NoDuplicates(nb) ==
  \A i, j \in DOMAIN nb : nb[i].originalText = nb[j].originalText => i = j

C29_NotebookHasNoDuplicates ==
  /\ [] NoDuplicates(notebook)
  /\ [][ \A entry \in [id : 0..MaxEntries, originalText : Texts] :
           SaveToNotebook(entry) =>
             notebook' =
               IF \/ resultStack = << >>
                  \/ \E i \in DOMAIN notebook :
                       notebook[i].originalText = entry.originalText
                 THEN notebook
                 ELSE << resultStack[Len(resultStack)] >> \o notebook ]_vars

\* A save was refused for an entry whose text, but not whose id, is in a
\* notebook that an earlier save has grown.
C29_Witness ==
  /\ did = "save:present"
  /\ Len(notebook) = 2
  /\ \A i \in DOMAIN notebook : notebook[i].id # CurrentResult.id

\* ---------------------------------------------------------------------
\* C30: Back with more than one entry on the result stack pops exactly the
\* top entry and leaves the view and the view history unchanged; with at most
\* one entry and a non-empty history it restores the last saved view, pops
\* that history item and empties the result stack; with an empty history it
\* goes to HOME with an empty result stack.
C30_BackUndoesLatestStep ==
  [][ HandleBack =>
        IF Len(resultStack) > 1
          THEN /\ resultStack' = SubSeq(resultStack, 1, Len(resultStack) - 1)
               /\ view' = view
               /\ navHistory' = navHistory
        ELSE IF navHistory # << >>
          THEN /\ view' = navHistory[Len(navHistory)].view
               /\ navHistory' = SubSeq(navHistory, 1, Len(navHistory) - 1)
               /\ resultStack' = << >>
        ELSE /\ view' = "HOME"
             /\ resultStack' = << >>
             /\ navHistory' = << >> ]_vars

\* Back has popped a result and the view history it left alone is not empty.
C30_Witness ==
  /\ did = "back:pop"
  /\ Len(resultStack) = 1
  /\ navHistory # << >>
  /\ view = "RESULT"

====
